---------------------------- MODULE Spec2Model ----------------------------
(***************************************************************************)
(* Model of rag_query.py: the MatchingEngineRAG session object (two index  *)
(* handles, two indexing calls, three query calls) and the interactive     *)
(* main() that drives it.  External collaborators (file system, directory  *)
(* reader, VectorStoreIndex, query engine, chat model, stdin) are the      *)
(* environment: every call to one of them either answers or raises.        *)
(*                                                                         *)
(* Strings are sequences of tokens, so that prefix tests, slicing,         *)
(* stripping and f-string interpolation are computed, not assumed.         *)
(***************************************************************************)
EXTENDS Naturals, Sequences, FiniteSets, TLC

(* ------------------------------ bounds --------------------------------- *)
MaxLen == 1        \* longest text a collaborator answers / a client asks
MaxDirs == 2       \* longest source_dirs list a client passes
NumFiles == 2      \* distinct matching files a directory may hold
MaxLineTokens == 2 \* longest input line, in tokens (a command prefix, a space, a word)

(* ------------------------------ values --------------------------------- *)
Alphabet == {"a", "b"}

RECURSIVE SeqsUpTo(_, _)
SeqsUpTo(S, n) ==
    IF n = 0 THEN {<<>>}
    ELSE LET shorter == SeqsUpTo(S, n - 1)
         IN  shorter \cup {Append(s, x) : s \in shorter, x \in S}

Texts == SeqsUpTo(Alphabet, MaxLen)

\* Python None where a string is expected
PyNone == "<None>"

\* values of an API key: absent, empty string, a key
KeyValues == {PyNone, "", "sk"}

\* bool(x) of an optional string
Truthy(v) == v \notin {PyNone, ""}

\* Python `a or b`
PyOr(a, b) == IF Truthy(a) THEN a ELSE b

\* os.environ restricted to the two credentials, as os.getenv reads it
Environs == [{"ANTHROPIC_API_KEY", "OPENAI_API_KEY"} -> KeyValues]

NoExc == [type |-> "", msg |-> <<>>]

Exc(t, m) == [type |-> t, msg |-> m]

\* subclasses of Exception, as opposed to KeyboardInterrupt (BaseException)
IsException(e) ==
    e.type \in {"Exception", "ValueError", "FileNotFoundError", "OSError", "EOFError"}

\* what a call into a collaborator may raise
CollabErrors ==
    { Exc("Exception", <<"collaborator failed">>),
      Exc("ValueError", <<"collaborator failed">>),
      Exc("KeyboardInterrupt", <<>>) }

Document(text, source, language) ==
    [text |-> text, source |-> source, language |-> language]

\* index handle values: attribute not yet assigned, None, or a reference to
\* an index object
Undef == [kind |-> "undef", id |-> 0, corpus |-> "", complete |-> FALSE]
None == [kind |-> "None", id |-> 0, corpus |-> "", complete |-> FALSE]

\* a reference to the id-th index object made by the indexing call `corpus`;
\* complete: every document given to from_documents is embedded in it
Index(id, corpus, complete) ==
    [kind |-> "index", id |-> id, corpus |-> corpus, complete |-> complete]

\* the index object inside from_documents: documents given, nodes embedded
Building(id, corpus, of) == [id |-> id, corpus |-> corpus, of |-> of, nodes |-> <<>>]

NoBuilding == Building(0, "", <<>>)

RECURSIVE Flatten(_)
Flatten(ss) == IF ss = <<>> THEN <<>> ELSE Head(ss) \o Flatten(Tail(ss))

\* s occurs in t as a contiguous subsequence
IsSubstring(s, t) ==
    \E i \in 0..(Len(t) - Len(s)) : SubSeq(t, i + 1, i + Len(s)) = s

(* ------------------------------- state --------------------------------- *)
VARIABLES
    anthropic_api_key,      \* self.anthropic_api_key
    openai_api_key,         \* self.openai_api_key
    instrumentation_index,  \* self.instrumentation_index
    code_index,             \* self.code_index
    pc,                     \* position inside the executing method, or "idle"
    locals,                 \* arguments and local variables of that method
    calls,                  \* collaborator calls of the current operation
    ret,                    \* outcome of the last operation
    stdout,                 \* what the current operation printed
    mpc,                    \* position inside main(), "api" for a library client
    exit_status,            \* process exit status once main() is over
    user_input,             \* main()'s local user_input
    failed_queries,         \* history: some query of this session was reported as failed
    remembered              \* history: an outcome the caller keeps to compare a later one with

vars == <<anthropic_api_key, openai_api_key, instrumentation_index,
          code_index, pc, locals, calls, ret, stdout, mpc,
          exit_status, user_input, failed_queries, remembered>>

self_vars == <<anthropic_api_key, openai_api_key, instrumentation_index, code_index>>
main_vars == <<mpc, exit_status, user_input, failed_queries>>

NoRet == [kind |-> "none", val |-> <<>>, exc |-> NoExc]

\* nothing kept yet
NoAnswer == [op |-> "", query |-> <<>>, calls |-> <<>>, ret |-> NoRet, between |-> FALSE]

NoLocals ==
    [ op |-> "", caller |-> "",
      environ |-> [k \in {"ANTHROPIC_API_KEY", "OPENAI_API_KEY"} |-> PyNone],
      anthropic_api_key |-> PyNone, openai_api_key |-> PyNone,
      log_exists |-> FALSE, log_content |-> <<>>,
      source_dirs_is_None |-> FALSE, source_dirs |-> <<>>, i |-> 0, documents |-> <<>>,
      building |-> NoBuilding, index |-> None,
      query |-> <<>>, instr_response |-> <<>>, code_response |-> <<>>,
      combined_query |-> <<>> ]

Call(fn, corpus, text, docs) ==
    [ev |-> "call", fn |-> fn, corpus |-> corpus, text |-> text, docs |-> docs,
     none |-> FALSE, index |-> None]

Answer(fn, corpus, text) ==
    [ev |-> "return", fn |-> fn, corpus |-> corpus, text |-> text, docs |-> <<>>,
     none |-> FALSE, index |-> None]

Failure(fn, corpus, e) ==
    [ev |-> "raise", fn |-> fn, corpus |-> corpus, text |-> <<e.type>>, docs |-> <<>>,
     none |-> FALSE, index |-> None]

\* the executing method raises e to whoever called the operation
Raise(e) ==
    /\ ret' = [kind |-> "raise", val |-> <<>>, exc |-> e]
    /\ pc' = "idle"

\* the executing method returns v to whoever called the operation
Return(v) ==
    /\ ret' = [kind |-> "return", val |-> v, exc |-> NoExc]
    /\ pc' = "idle"

(* ----------------------------- __init__ -------------------------------- *)
\* MatchingEngineRAG.__init__: keys from the arguments or the environment,
\* both required; then Settings.llm / embed_model / node_parser (library
\* constructors) and the two handles set to None.
MatchingEngineRAG_init ==
    /\ pc = "__init__"
    /\ \E environ \in Environs :
         LET ak == PyOr(locals.anthropic_api_key, environ["ANTHROPIC_API_KEY"])
             ok == PyOr(locals.openai_api_key, environ["OPENAI_API_KEY"])
         IN  /\ locals' = [locals EXCEPT !.environ = environ]
             /\ anthropic_api_key' = ak
             /\ openai_api_key' = ok
             /\ IF ~Truthy(ak)
                THEN /\ Raise(Exc("ValueError", <<"ANTHROPIC_API_KEY", "must be set">>))
                     /\ UNCHANGED <<instrumentation_index, code_index, calls>>
                ELSE IF ~Truthy(ok)
                THEN /\ Raise(Exc("ValueError", <<"OPENAI_API_KEY", "must be set for embeddings">>))
                     /\ UNCHANGED <<instrumentation_index, code_index, calls>>
                ELSE \/ \E e \in CollabErrors :
                          /\ calls' = Append(calls, Failure("Settings", "", e))
                          /\ Raise(e)
                          /\ UNCHANGED <<instrumentation_index, code_index>>
                     \/ /\ instrumentation_index' = None
                        /\ code_index' = None
                        /\ calls' = Append(calls, Answer("Settings", "", <<>>))
                        /\ Return(<<>>)
    /\ UNCHANGED <<stdout, main_vars>>
    /\ UNCHANGED remembered

(* ------------------- VectorStoreIndex.from_documents ------------------- *)
\* The library builds the index node by node, embedding each document; the
\* object under construction is local to the call until it returns.
from_documents_embed ==
    /\ pc = "from_documents"
    /\ Len(locals.building.nodes) < Len(locals.building.of)
    /\ \/ /\ locals' = [locals EXCEPT !.building.nodes =
                            Append(@, locals.building.of[Len(@) + 1])]
          /\ UNCHANGED <<pc, ret, calls>>
       \/ \E e \in CollabErrors :
            /\ calls' = Append(calls, Failure("from_documents", locals.op, e))
            /\ Raise(e)
            /\ UNCHANGED locals
    /\ UNCHANGED <<self_vars, stdout, main_vars>>
    /\ UNCHANGED remembered

\* every document is embedded: the call hands the finished object back
from_documents_return ==
    /\ pc = "from_documents"
    /\ Len(locals.building.nodes) = Len(locals.building.of)
    /\ locals' = [locals EXCEPT !.index =
                      Index(locals.building.id, locals.building.corpus,
                            Len(locals.building.nodes) = Len(locals.building.of))]
    /\ calls' = Append(calls, Answer("from_documents", locals.op, <<>>))
    /\ pc' = "assign"
    /\ UNCHANGED <<self_vars, ret, stdout, main_vars>>
    /\ UNCHANGED remembered

\* object identity: the new object is not the one the handle holds, which
\* stays alive while the new one is built
NewId(held) == IF held.id = 1 THEN 2 ELSE 1

\* the call itself: a new index object starts out empty
StartBuild(documents, held) ==
    /\ locals' = [locals EXCEPT !.building = Building(NewId(held), locals.op, documents)]
    /\ calls' = Append(calls, Call("from_documents", locals.op, <<>>, documents))
    /\ pc' = "from_documents"

(* ---------------------- index_instrumentation_log ---------------------- *)
LogContents == {<<>>, <<"ORDER_IN">>}

\* os.path.exists(log_path), then open/read
index_instrumentation_log_read ==
    /\ pc = "index_instrumentation_log"
    /\ \/ /\ ~locals.log_exists
          /\ Raise(Exc("FileNotFoundError", <<"Instrumentation log not found">>))
          /\ UNCHANGED <<locals, calls>>
       \/ /\ locals.log_exists
          /\ \/ \E e \in {Exc("OSError", <<"read failed">>), Exc("KeyboardInterrupt", <<>>)} :
                  /\ calls' = Append(calls, Failure("open", "", e))
                  /\ Raise(e)
                  /\ UNCHANGED locals
             \/ \E content \in LogContents :
                  /\ locals' = [locals EXCEPT !.log_content = content]
                  /\ calls' = Append(calls, Answer("open", "", content))
                  /\ pc' = "iil_build"
                  /\ UNCHANGED ret
    /\ UNCHANGED <<self_vars, stdout, main_vars>>
    /\ UNCHANGED remembered

\* doc = Document(...); VectorStoreIndex.from_documents([doc])
index_instrumentation_log_build ==
    /\ pc = "iil_build"
    /\ StartBuild(<<Document(locals.log_content, "instrumentation_log", "")>>,
                  instrumentation_index)
    /\ UNCHANGED <<self_vars, ret, stdout, main_vars>>
    /\ UNCHANGED remembered

\* self.instrumentation_index = <the index returned>
index_instrumentation_log_assign ==
    /\ pc = "assign"
    /\ locals.op = "index_instrumentation_log"
    /\ instrumentation_index' = locals.index
    /\ stdout' = stdout \o <<"Indexed instrumentation log">>
    /\ Return(<<>>)
    /\ UNCHANGED <<anthropic_api_key, openai_api_key, code_index,
                   locals, calls, main_vars>>
    /\ UNCHANGED remembered

(* --------------------------- index_source_code ------------------------- *)
NumDefaultDirs == 2

FileNames == <<"F1.java", "F2.java", "F3.java", "F4.java">>

\* a directory listing: matching files in sorted order, no duplicates
Listings ==
    { s \in SeqsUpTo(1..NumFiles, NumFiles) :
        \A j \in 1..Len(s) : \A k \in 1..Len(s) : j < k => s[j] < s[k] }

\* a configured directory: its path may not exist
Dirs ==
    {[exists |-> FALSE, files |-> <<>>]} \cup {[exists |-> TRUE, files |-> l] : l \in Listings}

DirLists == SeqsUpTo(Dirs, MaxDirs)

\* what the file system may hold at the two default paths
DefaultDirLists == {d \in SeqsUpTo(Dirs, NumDefaultDirs) : Len(d) = NumDefaultDirs}

\* SimpleDirectoryReader(...).load_data(): one Document per matching file
LoadData(dir) ==
    [j \in 1..Len(dir.files) |-> Document(<<FileNames[dir.files[j]]>>, "", "")]

\* doc.metadata["source"] = "source_code"; doc.metadata["language"] = "java"
Tag(doc) == [doc EXCEPT !.source = "source_code", !.language = "java"]

TagAll(docs) == [j \in 1..Len(docs) |-> Tag(docs[j])]

\* if source_dirs is None: the two default directories
index_source_code_defaults ==
    /\ pc = "index_source_code"
    /\ IF locals.source_dirs_is_None
       THEN \E d \in DefaultDirLists :
              locals' = [locals EXCEPT !.source_dirs_is_None = FALSE, !.source_dirs = d,
                                       !.i = 1, !.documents = <<>>]
       ELSE locals' = [locals EXCEPT !.i = 1, !.documents = <<>>]
    /\ stdout' = stdout \o <<"Indexing source code...">>
    /\ pc' = "isc_loop"
    /\ UNCHANGED <<self_vars, calls, ret, main_vars>>
    /\ UNCHANGED remembered

\* a missing directory treated as an error
index_source_code_dir_missing_fatal ==
    /\ pc = "isc_loop"
    /\ locals.i <= Len(locals.source_dirs)
    /\ LET source_dir == locals.source_dirs[locals.i]
       IN  IF ~source_dir.exists
           THEN /\ Raise(Exc("FileNotFoundError", <<"Directory not found">>))
                /\ UNCHANGED <<locals, stdout, calls>>
           ELSE \/ \E e \in CollabErrors :
                     /\ calls' = Append(calls, Failure("load_data", "", e))
                     /\ Raise(e)
                     /\ UNCHANGED <<locals, stdout>>
                \/ LET docs == TagAll(LoadData(source_dir))
                   IN  /\ locals' = [locals EXCEPT !.documents = @ \o docs, !.i = @ + 1]
                       /\ calls' = Append(calls,
                              [Answer("load_data", "", <<>>) EXCEPT !.docs = LoadData(source_dir)])
                       /\ stdout' = stdout \o <<"Indexed files from">>
                       /\ UNCHANGED <<pc, ret>>
    /\ UNCHANGED <<self_vars, main_vars>>
    /\ UNCHANGED remembered

\* one iteration of `for source_dir in source_dirs`
index_source_code_dir ==
    /\ pc = "isc_loop"
    /\ locals.i <= Len(locals.source_dirs)
    /\ LET source_dir == locals.source_dirs[locals.i]
       IN  IF ~source_dir.exists
           THEN /\ stdout' = stdout \o <<"Warning: Directory not found">>
                /\ locals' = [locals EXCEPT !.i = @ + 1]
                /\ UNCHANGED <<pc, ret, calls>>
           ELSE \/ \E e \in CollabErrors :
                     /\ calls' = Append(calls, Failure("load_data", "", e))
                     /\ Raise(e)
                     /\ UNCHANGED <<locals, stdout>>
                \/ LET docs == TagAll(LoadData(source_dir))
                   IN  /\ locals' = [locals EXCEPT !.documents = @ \o docs, !.i = @ + 1]
                       /\ calls' = Append(calls,
                              [Answer("load_data", "", <<>>) EXCEPT !.docs = LoadData(source_dir)])
                       /\ stdout' = stdout \o <<"Indexed files from">>
                       /\ UNCHANGED <<pc, ret>>
    /\ UNCHANGED <<self_vars, main_vars>>
    /\ UNCHANGED remembered

\* the handle set to the index object before it is filled
index_source_code_build_eager ==
    /\ pc = "isc_loop"
    /\ locals.i > Len(locals.source_dirs)
    /\ IF locals.documents = <<>>
       THEN /\ Raise(Exc("ValueError", <<"No source code files found to index">>))
            /\ UNCHANGED <<locals, calls>>
       ELSE /\ StartBuild(locals.documents, code_index)
            /\ UNCHANGED ret
    /\ code_index' = IF locals.documents = <<>> THEN code_index
                     ELSE Index(NewId(code_index), locals.op, FALSE)
    /\ UNCHANGED <<anthropic_api_key, openai_api_key, instrumentation_index,
                   stdout, main_vars>>
    /\ UNCHANGED remembered

\* the index built without testing for an empty corpus
index_source_code_build_no_check ==
    /\ pc = "isc_loop"
    /\ locals.i > Len(locals.source_dirs)
    /\ StartBuild(locals.documents, code_index)
    /\ UNCHANGED ret
    /\ UNCHANGED <<self_vars, stdout, main_vars>>
    /\ UNCHANGED remembered

\* after the loop: `if not documents: raise`, else from_documents(documents)
index_source_code_build ==
    /\ pc = "isc_loop"
    /\ locals.i > Len(locals.source_dirs)
    /\ IF locals.documents = <<>>
       THEN /\ Raise(Exc("ValueError", <<"No source code files found to index">>))
            /\ UNCHANGED <<locals, calls>>
       ELSE /\ StartBuild(locals.documents, code_index)
            /\ UNCHANGED ret
    /\ UNCHANGED <<self_vars, stdout, main_vars>>
    /\ UNCHANGED remembered

\* the new code index stored in the other handle
index_source_code_assign_wrong_handle ==
    /\ pc = "assign"
    /\ locals.op = "index_source_code"
    /\ instrumentation_index' = locals.index
    /\ stdout' = stdout \o <<"Indexed source code files">>
    /\ Return(<<>>)
    /\ UNCHANGED <<anthropic_api_key, openai_api_key, code_index,
                   locals, calls, main_vars>>
    /\ UNCHANGED remembered

\* self.code_index = <the index returned>
index_source_code_assign ==
    /\ pc = "assign"
    /\ locals.op = "index_source_code"
    /\ code_index' = locals.index
    /\ stdout' = stdout \o <<"Indexed source code files">>
    /\ Return(<<>>)
    /\ UNCHANGED <<anthropic_api_key, openai_api_key, instrumentation_index,
                   locals, calls, main_vars>>
    /\ UNCHANGED remembered

(* ------------------------------ queries -------------------------------- *)
\* what a query engine or the chat model hands back: a text, or None
Responses ==
    {[is_none |-> TRUE, text |-> <<>>]} \cup {[is_none |-> FALSE, text |-> t] : t \in Texts}

\* str(x)
PyStr(r) == IF r.is_none THEN <<"None">> ELSE r.text

InstrPrompt(query) ==
    <<"Based on the instrumentation log data, answer the following question.",
      "Question:">> \o query

CodePrompt(query) ==
    <<"Based on the Java source code for the matching engine, answer the following question.",
      "Question:">> \o query

InstrLabel == "1. From the execution instrumentation log:"
CodeLabel == "2. From the source code:"

\* the two answers interpolated under each other's label
CombinedPrompt_swapped(instr_response, code_response, query) ==
    <<"I have information from two sources about a matching engine:", InstrLabel>>
    \o code_response
    \o <<CodeLabel>>
    \o instr_response
    \o <<"Based on both sources, provide a comprehensive answer to:">>
    \o query
    \o <<"Synthesize the information from both the runtime execution data and the code implementation.">>

CombinedPrompt(instr_response, code_response, query) ==
    <<"I have information from two sources about a matching engine:", InstrLabel>>
    \o instr_response
    \o <<CodeLabel>>
    \o code_response
    \o <<"Based on both sources, provide a comprehensive answer to:">>
    \o query
    \o <<"Synthesize the information from both the runtime execution data and the code implementation.">>

\* a collaborator hands back the object r
Response(fn, corpus, r) == [Answer(fn, corpus, r.text) EXCEPT !.none = r.is_none]

\* query_instrumentation testing the other handle
query_instrumentation_check_other ==
    /\ pc = "query_instrumentation"
    /\ IF code_index = None
       THEN /\ Raise(Exc("ValueError", <<"Instrumentation log not indexed">>))
            /\ UNCHANGED calls
       ELSE /\ calls' = Append(calls,
                    [Call("query", "instrumentation", InstrPrompt(locals.query), <<>>)
                        EXCEPT !.index = instrumentation_index])
            /\ pc' = "qi_query"
            /\ UNCHANGED ret
    /\ UNCHANGED <<self_vars, locals, stdout, main_vars>>
    /\ UNCHANGED remembered

\* query_instrumentation up to query_engine.query(enhanced_query)
query_instrumentation_check ==
    /\ pc = "query_instrumentation"
    /\ IF instrumentation_index = None
       THEN /\ Raise(Exc("ValueError", <<"Instrumentation log not indexed">>))
            /\ UNCHANGED calls
       ELSE /\ calls' = Append(calls,
                    [Call("query", "instrumentation", InstrPrompt(locals.query), <<>>)
                        EXCEPT !.index = instrumentation_index])
            /\ pc' = "qi_query"
            /\ UNCHANGED ret
    /\ UNCHANGED <<self_vars, locals, stdout, main_vars>>
    /\ UNCHANGED remembered

\* a failed engine call tried again
query_instrumentation_query_retries ==
    /\ pc = "qi_query"
    /\ \/ \E e \in CollabErrors :
            /\ calls' = Append(calls, Failure("query", "instrumentation", e))
            /\ pc' = "query_instrumentation"
            /\ UNCHANGED <<ret, locals, stdout>>
       \/ \E response \in Responses :
            /\ calls' = Append(calls, Response("query", "instrumentation", response))
            /\ IF locals.caller = "query_both"
               THEN /\ locals' = [locals EXCEPT !.instr_response = PyStr(response)]
                    /\ stdout' = stdout \o <<"Querying source code...">>
                    /\ pc' = "query_code"
                    /\ UNCHANGED ret
               ELSE /\ Return(PyStr(response))
                    /\ UNCHANGED <<locals, stdout>>
    /\ UNCHANGED <<self_vars, main_vars>>
    /\ UNCHANGED remembered

\* the query engine answers or raises; return str(response)
query_instrumentation_query ==
    /\ pc = "qi_query"
    /\ \/ \E e \in CollabErrors :
            /\ calls' = Append(calls, Failure("query", "instrumentation", e))
            /\ Raise(e)
            /\ UNCHANGED <<locals, stdout>>
       \/ \E response \in Responses :
            /\ calls' = Append(calls, Response("query", "instrumentation", response))
            /\ IF locals.caller = "query_both"
               THEN /\ locals' = [locals EXCEPT !.instr_response = PyStr(response)]
                    /\ stdout' = stdout \o <<"Querying source code...">>
                    /\ pc' = "query_code"
                    /\ UNCHANGED ret
               ELSE /\ Return(PyStr(response))
                    /\ UNCHANGED <<locals, stdout>>
    /\ UNCHANGED <<self_vars, main_vars>>
    /\ UNCHANGED remembered

\* the instrumentation answer sent along to the code engine
query_code_check_chained ==
    /\ pc = "query_code"
    /\ IF code_index = None
       THEN /\ Raise(Exc("ValueError", <<"Source code not indexed">>))
            /\ UNCHANGED calls
       ELSE /\ calls' = Append(calls,
                    [Call("query", "code", CodePrompt(locals.query \o locals.instr_response), <<>>)
                        EXCEPT !.index = code_index])
            /\ pc' = "qc_query"
            /\ UNCHANGED ret
    /\ UNCHANGED <<self_vars, locals, stdout, main_vars>>
    /\ UNCHANGED remembered

\* query_code up to query_engine.query(enhanced_query)
query_code_check ==
    /\ pc = "query_code"
    /\ IF code_index = None
       THEN /\ Raise(Exc("ValueError", <<"Source code not indexed">>))
            /\ UNCHANGED calls
       ELSE /\ calls' = Append(calls,
                    [Call("query", "code", CodePrompt(locals.query), <<>>)
                        EXCEPT !.index = code_index])
            /\ pc' = "qc_query"
            /\ UNCHANGED ret
    /\ UNCHANGED <<self_vars, locals, stdout, main_vars>>
    /\ UNCHANGED remembered

\* the code handle dropped when its engine fails
query_code_query_drops_handle ==
    /\ pc = "qc_query"
    /\ \/ \E e \in CollabErrors :
            /\ calls' = Append(calls, Failure("query", "code", e))
            /\ Raise(e)
            /\ UNCHANGED locals
       \/ \E response \in Responses :
            /\ calls' = Append(calls, Response("query", "code", response))
            /\ IF locals.caller = "query_both"
               THEN /\ locals' = [locals EXCEPT !.code_response = PyStr(response)]
                    /\ pc' = "qb_combine"
                    /\ UNCHANGED ret
               ELSE /\ Return(PyStr(response))
                    /\ UNCHANGED locals
    /\ code_index' = IF ret'.kind = "raise" THEN None ELSE code_index
    /\ UNCHANGED <<anthropic_api_key, openai_api_key, instrumentation_index,
                   stdout, main_vars>>
    /\ UNCHANGED remembered

\* the query engine answers or raises; return str(response)
query_code_query ==
    /\ pc = "qc_query"
    /\ \/ \E e \in CollabErrors :
            /\ calls' = Append(calls, Failure("query", "code", e))
            /\ Raise(e)
            /\ UNCHANGED locals
       \/ \E response \in Responses :
            /\ calls' = Append(calls, Response("query", "code", response))
            /\ IF locals.caller = "query_both"
               THEN /\ locals' = [locals EXCEPT !.code_response = PyStr(response)]
                    /\ pc' = "qb_combine"
                    /\ UNCHANGED ret
               ELSE /\ Return(PyStr(response))
                    /\ UNCHANGED locals
    /\ UNCHANGED <<self_vars, stdout, main_vars>>
    /\ UNCHANGED remembered

\* query_both testing `and` where the code has `or`
query_both_check_and ==
    /\ pc = "query_both"
    /\ IF instrumentation_index = None /\ code_index = None
       THEN /\ Raise(Exc("ValueError", <<"Both indices must be created first">>))
            /\ UNCHANGED <<locals, stdout>>
       ELSE /\ locals' = [locals EXCEPT !.caller = "query_both"]
            /\ stdout' = stdout \o <<"Querying instrumentation log...">>
            /\ pc' = "query_instrumentation"
            /\ UNCHANGED ret
    /\ UNCHANGED <<self_vars, calls, main_vars>>
    /\ UNCHANGED remembered

\* query_both asking the code engine first
query_both_check_code_first ==
    /\ pc = "query_both"
    /\ IF instrumentation_index = None \/ code_index = None
       THEN /\ Raise(Exc("ValueError", <<"Both indices must be created first">>))
            /\ UNCHANGED <<locals, stdout>>
       ELSE /\ locals' = [locals EXCEPT !.caller = "query_both"]
            /\ stdout' = stdout \o <<"Querying instrumentation log...">>
            /\ pc' = "query_code"
            /\ UNCHANGED ret
    /\ UNCHANGED <<self_vars, calls, main_vars>>
    /\ UNCHANGED remembered

\* query_both: both handles are checked before anything else
query_both_check ==
    /\ pc = "query_both"
    /\ IF instrumentation_index = None \/ code_index = None
       THEN /\ Raise(Exc("ValueError", <<"Both indices must be created first">>))
            /\ UNCHANGED <<locals, stdout>>
       ELSE /\ locals' = [locals EXCEPT !.caller = "query_both"]
            /\ stdout' = stdout \o <<"Querying instrumentation log...">>
            /\ pc' = "query_instrumentation"
            /\ UNCHANGED ret
    /\ UNCHANGED <<self_vars, calls, main_vars>>
    /\ UNCHANGED remembered

\* the instrumentation index kept in the code handle
query_both_combine_overwrites_handle ==
    /\ pc = "qb_combine"
    /\ LET combined_query ==
               CombinedPrompt(locals.instr_response, locals.code_response, locals.query)
       IN  /\ locals' = [locals EXCEPT !.combined_query = combined_query]
           /\ calls' = Append(calls, Call("chat", "", combined_query, <<>>))
    /\ pc' = "qb_chat"
    /\ code_index' = instrumentation_index
    /\ UNCHANGED <<anthropic_api_key, openai_api_key, instrumentation_index,
                   ret, stdout, main_vars>>
    /\ UNCHANGED remembered

\* combined_query = f"..."; Settings.llm.chat(messages)
query_both_combine ==
    /\ pc = "qb_combine"
    /\ LET combined_query ==
               CombinedPrompt(locals.instr_response, locals.code_response, locals.query)
       IN  /\ locals' = [locals EXCEPT !.combined_query = combined_query]
           /\ calls' = Append(calls, Call("chat", "", combined_query, <<>>))
    /\ pc' = "qb_chat"
    /\ UNCHANGED <<self_vars, ret, stdout, main_vars>>
    /\ UNCHANGED remembered

\* the chat model answers or raises; return str(response.message.content)
query_both_chat ==
    /\ pc = "qb_chat"
    /\ \/ \E e \in CollabErrors :
            /\ calls' = Append(calls, Failure("chat", "", e))
            /\ Raise(e)
       \/ \E content \in Responses :
            /\ calls' = Append(calls, Response("chat", "", content))
            /\ Return(PyStr(content))
    /\ UNCHANGED <<self_vars, locals, stdout, main_vars>>
    /\ UNCHANGED remembered

\* every step of a method body
Method ==
    \/ MatchingEngineRAG_init
    \/ from_documents_embed
    \/ from_documents_return
    \/ index_instrumentation_log_read
    \/ index_instrumentation_log_build
    \/ index_instrumentation_log_assign
    \/ index_source_code_defaults
    \/ index_source_code_dir
    \/ index_source_code_build
    \/ index_source_code_assign
    \/ query_instrumentation_check
    \/ query_instrumentation_query
    \/ query_code_check
    \/ query_code_query
    \/ query_both_check
    \/ query_both_combine
    \/ query_both_chat

(* ------------------- a library client of the class --------------------- *)
Constructed == instrumentation_index # Undef /\ code_index # Undef

\* enter a method: fresh locals, nothing called or printed yet
Enter(op, args) ==
    /\ pc' = op
    /\ locals' = args
    /\ calls' = <<>>
    /\ stdout' = <<>>
    /\ ret' = NoRet

\* the caller has the outcome of its call; the method's frame is gone
Client_result ==
    /\ mpc = "api" /\ pc = "idle" /\ ret # NoRet
    /\ ret' = NoRet
    /\ locals' = NoLocals
    /\ calls' = <<>>
    /\ stdout' = <<>>
    /\ UNCHANGED <<self_vars, pc, main_vars>>
    /\ UNCHANGED remembered

\* rag = MatchingEngineRAG(anthropic_api_key, openai_api_key)
Client_new ==
    /\ mpc = "api" /\ pc = "idle" /\ ret = NoRet /\ ~Constructed
    /\ \E a \in KeyValues, o \in KeyValues :
         Enter("__init__", [NoLocals EXCEPT !.op = "__init__",
                                            !.anthropic_api_key = a, !.openai_api_key = o])
    /\ UNCHANGED <<self_vars, main_vars>>
    /\ UNCHANGED remembered

\* rag.index_instrumentation_log(log_path)
Client_index_instrumentation_log ==
    /\ mpc = "api" /\ pc = "idle" /\ ret = NoRet /\ Constructed
    /\ \E exists \in BOOLEAN :
         Enter("index_instrumentation_log",
               [NoLocals EXCEPT !.op = "index_instrumentation_log", !.log_exists = exists])
    /\ UNCHANGED <<self_vars, main_vars>>
    /\ UNCHANGED remembered

\* rag.index_source_code(source_dirs)
Client_index_source_code ==
    /\ mpc = "api" /\ pc = "idle" /\ ret = NoRet /\ Constructed
    /\ \/ Enter("index_source_code",
                [NoLocals EXCEPT !.op = "index_source_code", !.source_dirs_is_None = TRUE])
       \/ \E d \in DirLists :
            Enter("index_source_code",
                  [NoLocals EXCEPT !.op = "index_source_code", !.source_dirs = d])
    /\ UNCHANGED <<self_vars, main_vars>>
    /\ UNCHANGED remembered

\* rag.query_instrumentation(q), rag.query_code(q), rag.query_both(q)
Client_query ==
    /\ mpc = "api" /\ pc = "idle" /\ ret = NoRet /\ Constructed
    /\ \E op \in {"query_instrumentation", "query_code", "query_both"}, q \in Texts :
         Enter(op, [NoLocals EXCEPT !.op = op, !.query = q])
    /\ UNCHANGED <<self_vars, main_vars>>
    /\ UNCHANGED remembered

(* -------------------------------- main --------------------------------- *)
\* input lines are character sequences, written as a few tokens
LineTokens ==
    { <<"/", "i", "n", "s", "t", "r", " ">>,
      <<"/", "c", "o", "d", "e", " ">>,
      <<"/", "b", "o", "t", "h", " ">>,
      <<"/", "q", "u", "i", "t">>,
      <<" ">>,
      <<"w">> }

Lines == {Flatten(ts) : ts \in SeqsUpTo(LineTokens, MaxLineTokens)}

\* str.strip()
RECURSIVE LStrip(_)
LStrip(s) == IF s # <<>> /\ Head(s) = " " THEN LStrip(Tail(s)) ELSE s

RECURSIVE RStrip(_)
RStrip(s) ==
    IF s # <<>> /\ s[Len(s)] = " " THEN RStrip(SubSeq(s, 1, Len(s) - 1)) ELSE s

Strip(s) == RStrip(LStrip(s))

\* s.startswith(prefix)
StartsWith(s, prefix) ==
    Len(s) >= Len(prefix) /\ SubSeq(s, 1, Len(prefix)) = prefix

\* s[n:]
SliceFrom(s, n) == SubSeq(s, n + 1, Len(s))

InstrPrefix == <<"/", "i", "n", "s", "t", "r", " ">>
CodePrefix == <<"/", "c", "o", "d", "e", " ">>
BothPrefix == <<"/", "b", "o", "t", "h", " ">>
QuitToken == <<"/", "q", "u", "i", "t">>

\* sys.exit(status), an uncaught exception, or main() returning
Exit(status) ==
    /\ mpc' = "exited"
    /\ exit_status' = status

\* rag = MatchingEngineRAG()
main_new ==
    /\ mpc = "start" /\ pc = "idle"
    /\ Enter("__init__", [NoLocals EXCEPT !.op = "__init__"])
    /\ mpc' = "__init__"
    /\ UNCHANGED <<self_vars, exit_status, user_input, failed_queries>>
    /\ UNCHANGED remembered

\* only the exception text is printed
main_new_error_no_help ==
    /\ mpc = "__init__" /\ pc = "idle" /\ ret.kind = "raise"
    /\ IF ret.exc.type = "ValueError"
       THEN /\ stdout' = stdout \o <<"Error:">> \o ret.exc.msg
            /\ Exit(1)
       ELSE /\ stdout' = stdout \o <<"Traceback">>
            /\ Exit(IF ret.exc.type = "KeyboardInterrupt" THEN 130 ELSE 1)
    /\ UNCHANGED <<self_vars, pc, locals, calls, ret, user_input, failed_queries>>
    /\ UNCHANGED remembered

\* except ValueError: report, name both variables, sys.exit(1);
\* anything else raised by the constructor is not caught
main_new_error ==
    /\ mpc = "__init__" /\ pc = "idle" /\ ret.kind = "raise"
    /\ IF ret.exc.type = "ValueError"
       THEN /\ stdout' = stdout \o <<"Error:">> \o ret.exc.msg
                           \o <<"Please set the following environment variables:",
                                "export", "ANTHROPIC_API_KEY",
                                "export", "OPENAI_API_KEY">>
            /\ Exit(1)
       ELSE /\ stdout' = stdout \o <<"Traceback">>
            /\ Exit(IF ret.exc.type = "KeyboardInterrupt" THEN 130 ELSE 1)
    /\ UNCHANGED <<self_vars, pc, locals, calls, ret, user_input, failed_queries>>
    /\ UNCHANGED remembered

\* rag.index_instrumentation_log()
main_index_instrumentation_log ==
    /\ mpc = "__init__" /\ pc = "idle" /\ ret.kind = "return"
    /\ \E exists \in BOOLEAN :
         Enter("index_instrumentation_log",
               [NoLocals EXCEPT !.op = "index_instrumentation_log", !.log_exists = exists])
    /\ mpc' = "index_instrumentation_log"
    /\ UNCHANGED <<self_vars, exit_status, user_input, failed_queries>>
    /\ UNCHANGED remembered

\* the loop entered without indexing the source code
main_index_source_code_skipped ==
    /\ mpc = "index_instrumentation_log" /\ pc = "idle" /\ ret.kind = "return"
    /\ mpc' = "input"
    /\ UNCHANGED <<self_vars, pc, locals, calls, ret, stdout, exit_status, user_input,
                   failed_queries>>
    /\ UNCHANGED remembered

\* rag.index_source_code()
main_index_source_code ==
    /\ mpc = "index_instrumentation_log" /\ pc = "idle" /\ ret.kind = "return"
    /\ Enter("index_source_code",
             [NoLocals EXCEPT !.op = "index_source_code", !.source_dirs_is_None = TRUE])
    /\ mpc' = "index_source_code"
    /\ UNCHANGED <<self_vars, exit_status, user_input, failed_queries>>
    /\ UNCHANGED remembered

\* an indexing error reported without leaving
main_index_error_continues ==
    /\ mpc \in {"index_instrumentation_log", "index_source_code"}
    /\ pc = "idle" /\ ret.kind = "raise"
    /\ IF IsException(ret.exc)
       THEN /\ stdout' = stdout \o <<"Error indexing:">> \o ret.exc.msg
            /\ mpc' = "input"
            /\ UNCHANGED exit_status
       ELSE /\ stdout' = stdout \o <<"Traceback">>
            /\ Exit(130)
    /\ UNCHANGED <<self_vars, pc, locals, calls, ret, user_input, failed_queries>>
    /\ UNCHANGED remembered

\* except Exception: report, sys.exit(1); a KeyboardInterrupt is not caught
main_index_error ==
    /\ mpc \in {"index_instrumentation_log", "index_source_code"}
    /\ pc = "idle" /\ ret.kind = "raise"
    /\ IF IsException(ret.exc)
       THEN /\ stdout' = stdout \o <<"Error indexing:">> \o ret.exc.msg
            /\ Exit(1)
       ELSE /\ stdout' = stdout \o <<"Traceback">>
            /\ Exit(130)
    /\ UNCHANGED <<self_vars, pc, locals, calls, ret, user_input, failed_queries>>
    /\ UNCHANGED remembered

\* both indexing calls returned: the loop is entered
main_ready ==
    /\ mpc = "index_source_code" /\ pc = "idle" /\ ret.kind = "return"
    /\ stdout' = stdout \o <<"RAG pipeline ready!">>
    /\ mpc' = "input"
    /\ UNCHANGED <<self_vars, pc, locals, calls, ret, exit_status, user_input, failed_queries>>
    /\ UNCHANGED remembered

\* top of `while True`: input("Query: ") shows the prompt
main_prompt ==
    /\ mpc = "input" /\ pc = "idle"
    /\ stdout' = <<"Query: ">>
    /\ calls' = <<>>
    /\ ret' = NoRet
    /\ locals' = NoLocals
    /\ user_input' = <<>>
    /\ mpc' = "read"
    /\ UNCHANGED <<self_vars, pc, exit_status, failed_queries>>
    /\ UNCHANGED remembered

\* the line taken as typed, not stripped
main_input_no_strip ==
    /\ mpc = "read"
    /\ \E line \in Lines :
         /\ user_input' = line
         /\ mpc' = "loop"
    /\ UNCHANGED <<self_vars, pc, locals, calls, ret, stdout, exit_status, failed_queries>>
    /\ UNCHANGED remembered

\* user_input = input("Query: ").strip()
main_input ==
    /\ mpc = "read"
    /\ \E line \in Lines :
         /\ user_input' = Strip(line)
         /\ mpc' = "loop"
    /\ UNCHANGED <<self_vars, pc, locals, calls, ret, stdout, exit_status, failed_queries>>
    /\ UNCHANGED remembered

\* end of input ending the session
main_input_raises_eof_ends ==
    /\ mpc = "read"
    /\ \E e \in {Exc("KeyboardInterrupt", <<>>), Exc("EOFError", <<"EOF when reading a line">>)} :
         /\ ret' = [kind |-> "raise", val |-> <<>>, exc |-> e]
         /\ IF IsException(e)
            THEN /\ stdout' = stdout \o <<"Error:">> \o e.msg
                 /\ Exit(1)
            ELSE /\ stdout' = stdout \o <<"Goodbye!">>
                 /\ Exit(0)
    /\ UNCHANGED <<self_vars, pc, locals, calls, user_input, failed_queries>>
    /\ UNCHANGED remembered

\* input() itself raises: Ctrl-C ends the loop, end of input is reported
main_input_raises ==
    /\ mpc = "read"
    /\ \E e \in {Exc("KeyboardInterrupt", <<>>), Exc("EOFError", <<"EOF when reading a line">>)} :
         /\ ret' = [kind |-> "raise", val |-> <<>>, exc |-> e]
         /\ IF IsException(e)
            THEN /\ stdout' = stdout \o <<"Error:">> \o e.msg
                 /\ mpc' = "input"
                 /\ UNCHANGED exit_status
            ELSE /\ stdout' = stdout \o <<"Goodbye!">>
                 /\ Exit(0)
    /\ UNCHANGED <<self_vars, pc, locals, calls, user_input, failed_queries>>
    /\ UNCHANGED remembered

\* if not user_input: continue
main_continue ==
    /\ mpc = "loop" /\ user_input = <<>>
    /\ mpc' = "input"
    /\ UNCHANGED <<self_vars, pc, locals, calls, ret, stdout, exit_status, user_input,
                   failed_queries>>
    /\ UNCHANGED remembered

\* the farewell printed without leaving the loop
main_quit_goes_on ==
    /\ mpc = "loop" /\ user_input = QuitToken
    /\ stdout' = stdout \o <<"Goodbye!">>
    /\ mpc' = "input"
    /\ UNCHANGED exit_status
    /\ UNCHANGED <<self_vars, pc, locals, calls, ret, user_input, failed_queries>>
    /\ UNCHANGED remembered

\* if user_input == "/quit": break
main_quit ==
    /\ mpc = "loop" /\ user_input = QuitToken
    /\ stdout' = stdout \o <<"Goodbye!">>
    /\ Exit(0)
    /\ UNCHANGED <<self_vars, pc, locals, calls, ret, user_input, failed_queries>>
    /\ UNCHANGED remembered

\* the /both prefix left in the question
main_dispatch_both_prefix_kept ==
    /\ mpc = "loop" /\ user_input # <<>> /\ user_input # QuitToken
    /\ LET op == IF StartsWith(user_input, InstrPrefix) THEN "query_instrumentation"
                 ELSE IF StartsWith(user_input, CodePrefix) THEN "query_code"
                 ELSE "query_both"
           query == IF StartsWith(user_input, InstrPrefix) THEN Strip(SliceFrom(user_input, 7))
                    ELSE IF StartsWith(user_input, CodePrefix) THEN Strip(SliceFrom(user_input, 6))
                    ELSE IF StartsWith(user_input, BothPrefix) THEN user_input
                    ELSE user_input
       IN  /\ pc' = op
           /\ locals' = [NoLocals EXCEPT !.op = op, !.query = query]
           /\ stdout' = stdout \o <<"Querying...">>
    /\ mpc' = "query"
    /\ UNCHANGED <<self_vars, calls, ret, exit_status, user_input, failed_queries>>
    /\ UNCHANGED remembered

\* the if/elif chain on the prefix, up to the call it makes
main_dispatch ==
    /\ mpc = "loop" /\ user_input # <<>> /\ user_input # QuitToken
    /\ LET op == IF StartsWith(user_input, InstrPrefix) THEN "query_instrumentation"
                 ELSE IF StartsWith(user_input, CodePrefix) THEN "query_code"
                 ELSE "query_both"
           query == IF StartsWith(user_input, InstrPrefix) THEN Strip(SliceFrom(user_input, 7))
                    ELSE IF StartsWith(user_input, CodePrefix) THEN Strip(SliceFrom(user_input, 6))
                    ELSE IF StartsWith(user_input, BothPrefix) THEN Strip(SliceFrom(user_input, 6))
                    ELSE user_input
       IN  /\ pc' = op
           /\ locals' = [NoLocals EXCEPT !.op = op, !.query = query]
           /\ stdout' = stdout \o <<"Querying...">>
    /\ mpc' = "query"
    /\ UNCHANGED <<self_vars, calls, ret, exit_status, user_input, failed_queries>>
    /\ UNCHANGED remembered

\* print(response), back to the prompt
main_query_return ==
    /\ mpc = "query" /\ pc = "idle" /\ ret.kind = "return"
    /\ stdout' = stdout \o ret.val
    /\ mpc' = "input"
    /\ UNCHANGED <<self_vars, pc, locals, calls, ret, exit_status, user_input, failed_queries>>
    /\ UNCHANGED remembered

\* a failed query ending the session
main_query_error_exits ==
    /\ mpc = "query" /\ pc = "idle" /\ ret.kind = "raise"
    /\ IF IsException(ret.exc)
       THEN /\ stdout' = stdout \o <<"Error:">> \o ret.exc.msg
            /\ Exit(1)
            /\ failed_queries' = TRUE
       ELSE /\ stdout' = stdout \o <<"Goodbye!">>
            /\ Exit(0)
            /\ UNCHANGED failed_queries
    /\ UNCHANGED <<self_vars, pc, locals, calls, ret, user_input>>
    /\ UNCHANGED remembered

\* except KeyboardInterrupt: break / except Exception: report and go on
main_query_error ==
    /\ mpc = "query" /\ pc = "idle" /\ ret.kind = "raise"
    /\ IF IsException(ret.exc)
       THEN /\ stdout' = stdout \o <<"Error:">> \o ret.exc.msg
            /\ mpc' = "input"
            /\ failed_queries' = TRUE
            /\ UNCHANGED exit_status
       ELSE /\ stdout' = stdout \o <<"Goodbye!">>
            /\ Exit(0)
            /\ UNCHANGED failed_queries
    /\ UNCHANGED <<self_vars, pc, locals, calls, ret, user_input>>
    /\ UNCHANGED remembered

Main ==
    \/ main_new
    \/ main_new_error
    \/ main_index_instrumentation_log
    \/ main_index_source_code
    \/ main_index_error
    \/ main_ready
    \/ main_prompt
    \/ main_input
    \/ main_input_raises
    \/ main_continue
    \/ main_quit
    \/ main_dispatch
    \/ main_query_return
    \/ main_query_error

(* --------------------------- specifications ---------------------------- *)
\* before the session object exists
Start ==
    /\ anthropic_api_key = PyNone
    /\ openai_api_key = PyNone
    /\ instrumentation_index = Undef
    /\ code_index = Undef
    /\ pc = "idle"
    /\ locals = NoLocals
    /\ calls = <<>>
    /\ ret = NoRet
    /\ stdout = <<>>
    /\ exit_status = 0
    /\ user_input = <<>>
    /\ failed_queries = FALSE
    /\ remembered = NoAnswer

\* the class used as a library: any sequence of calls on one object
Init == Start /\ mpc = "api"

Next ==
    \/ Client_new
    \/ Client_index_instrumentation_log
    \/ Client_index_source_code
    \/ Client_query
    \/ Client_result
    \/ Method

Spec == Init /\ [][Next]_vars

\* the program run as a script
MainInit == Start /\ mpc = "start"

MainNext == Main \/ Method

MainSpec == MainInit /\ [][MainNext]_vars

(* ------------------------------ properties ----------------------------- *)
\* operation op is over and its outcome is in ret
Done(op) == pc = "idle" /\ locals.op = op /\ ret.kind # "none"

Built(h) == h.kind = "index"

Shape(c) == [ev |-> c.ev, fn |-> c.fn, corpus |-> c.corpus]

BothNotIndexed == Exc("ValueError", <<"Both indices must be created first">>)
InstrNotIndexed == Exc("ValueError", <<"Instrumentation log not indexed">>)
CodeNotIndexed == Exc("ValueError", <<"Source code not indexed">>)

\* C1: query_both with instrumentation_index or code_index absent raises the
\* not-indexed error having called no collaborator (no sub-query, no
\* synthesis call), and it gets past its first check only with both built.
C1_BothChecksFirst ==
    /\ (Done("query_both") /\ (instrumentation_index = None \/ code_index = None))
          => (ret.kind = "raise" /\ ret.exc = BothNotIndexed /\ calls = <<>>)
    /\ (locals.op = "query_both" /\ pc \notin {"idle", "query_both"})
          => (Built(instrumentation_index) /\ Built(code_index))

C1_Witness ==
    /\ Done("query_both")
    /\ Built(instrumentation_index) /\ code_index = None
    /\ ret.kind = "raise"

\* the collaborator events of a successful query_both, in order
BothProtocol ==
    << [ev |-> "call", fn |-> "query", corpus |-> "instrumentation"],
       [ev |-> "return", fn |-> "query", corpus |-> "instrumentation"],
       [ev |-> "call", fn |-> "query", corpus |-> "code"],
       [ev |-> "return", fn |-> "query", corpus |-> "code"],
       [ev |-> "call", fn |-> "chat", corpus |-> ""],
       [ev |-> "return", fn |-> "chat", corpus |-> ""] >>

\* C2: at every moment of a query_both the collaborator events so far are a
\* prefix of: instrumentation sub-query called, answered, code sub-query
\* called, answered, chat called, answered (a failed call ends the list); a
\* query_both that returns has made exactly these six events, once each.
C2_StrictSequence ==
    locals.op = "query_both" =>
        /\ Len(calls) <= Len(BothProtocol)
        /\ \A i \in 1..Len(calls) :
             \/ Shape(calls[i]) = BothProtocol[i]
             \/ /\ i = Len(calls) /\ ret.kind = "raise"
                /\ Shape(calls[i]) = [BothProtocol[i] EXCEPT !.ev = "raise"]
                /\ BothProtocol[i].ev = "return"
        /\ (pc = "idle" /\ ret.kind = "return") =>
             /\ Len(calls) = Len(BothProtocol)
             /\ \A i \in 1..Len(calls) : Shape(calls[i]) = BothProtocol[i]

C2_Witness == Done("query_both") /\ ret.kind = "return"

\* str() of what a collaborator handed back
Str(c) == PyStr([is_none |-> c.none, text |-> c.text])

\* texts answered so far by the sub-query on one corpus
SubAnswers(corpus) ==
    { Str(calls[j]) : j \in { k \in 1..Len(calls) :
                                Shape(calls[k]) = [ev |-> "return", fn |-> "query",
                                                   corpus |-> corpus] } }

\* C3: the prompt of the chat call of query_both contains the instrumentation
\* answer right after the instrumentation label and the code answer right
\* after the code label, and query_both returns what the chat call answered.
C3_PromptHasBothAnswers ==
    locals.op = "query_both" =>
        \A i \in 1..Len(calls) :
            /\ (calls[i].fn = "chat" /\ calls[i].ev = "call") =>
                 /\ SubAnswers("instrumentation") # {} /\ SubAnswers("code") # {}
                 /\ \A a \in SubAnswers("instrumentation") :
                      IsSubstring(<<InstrLabel>> \o a, calls[i].text)
                 /\ \A a \in SubAnswers("code") :
                      IsSubstring(<<CodeLabel>> \o a, calls[i].text)
            /\ (calls[i].fn = "chat" /\ calls[i].ev = "return") =>
                 (pc = "idle" /\ ret.kind = "return" /\ ret.val = Str(calls[i]))

C3_Witness ==
    /\ Done("query_both") /\ ret.kind = "return"
    /\ \E a \in SubAnswers("instrumentation"), b \in SubAnswers("code") :
         a # b /\ a # <<>> /\ b # <<>>

\* C4: a single-corpus query raises its not-indexed error, with no
\* collaborator called, exactly when its own handle is absent, whatever the
\* other handle is.
C4_OwnHandleOnly ==
    /\ Done("query_instrumentation") =>
         IF instrumentation_index = None
         THEN ret.kind = "raise" /\ ret.exc = InstrNotIndexed /\ calls = <<>>
         ELSE ret.exc # InstrNotIndexed /\ calls # <<>>
    /\ Done("query_code") =>
         IF code_index = None
         THEN ret.kind = "raise" /\ ret.exc = CodeNotIndexed /\ calls = <<>>
         ELSE ret.exc # CodeNotIndexed /\ calls # <<>>

C4_Witness ==
    /\ Done("query_instrumentation")
    /\ instrumentation_index = None /\ Built(code_index)
    /\ ret.kind = "raise" /\ calls = <<>>

InLoop == mpc \in {"input", "read", "loop", "query"}

\* C5: in main(), a query that raises an Exception is reported and the loop
\* goes back to the prompt with the process alive and both handles as they
\* were; a session that has had failed queries ends only by /quit or Ctrl-C.
C5_QueryErrorsAreReported ==
    /\ [][ (mpc = "query" /\ pc = "idle" /\ ret.kind = "raise" /\ IsException(ret.exc))
             => /\ mpc' = "input" /\ pc' = "idle"
                /\ IsSubstring(<<"Error:">> \o ret.exc.msg, stdout')
                /\ UNCHANGED <<instrumentation_index, code_index>> ]_vars
    /\ []((failed_queries /\ mpc = "exited")
             => (exit_status = 0 /\ (user_input = QuitToken
                                       \/ ret.exc.type = "KeyboardInterrupt")))

\* a query is answered after an earlier one failed
C5_Witness ==
    failed_queries /\ mpc = "input" /\ ret.kind = "return" /\ locals.op = "query_both"

Unset(k) == ~Truthy(locals.environ[k])

Mentions(out, name) == \E i \in 1..Len(out) : out[i] = name

\* C6: in main(), when the constructor comes back with a credential unset in
\* the environment, the next step ends the process with a non-zero status,
\* naming both variables when both are unset; nothing was indexed, and
\* indexing and the loop are reached only with both keys set.
C6_MissingCredentialIsFatal ==
    /\ [][ (mpc = "__init__" /\ pc = "idle"
              /\ (Unset("ANTHROPIC_API_KEY") \/ Unset("OPENAI_API_KEY")))
             => /\ ret.kind = "raise"
                /\ mpc' = "exited" /\ exit_status' # 0
                /\ instrumentation_index' = Undef /\ code_index' = Undef
                /\ (Unset("ANTHROPIC_API_KEY") /\ Unset("OPENAI_API_KEY"))
                      => (Mentions(stdout', "ANTHROPIC_API_KEY")
                            /\ Mentions(stdout', "OPENAI_API_KEY")) ]_vars
    /\ [](mpc \notin {"start", "__init__", "exited"}
             => (Truthy(anthropic_api_key) /\ Truthy(openai_api_key)))
    /\ []((mpc = "exited" /\ locals.op = "__init__")
             => (instrumentation_index = Undef /\ code_index = Undef
                   /\ \A i \in 1..Len(calls) : calls[i].fn # "from_documents"))

C6_Witness ==
    /\ mpc = "exited" /\ locals.op = "__init__" /\ exit_status = 1
    /\ Unset("ANTHROPIC_API_KEY") /\ Unset("OPENAI_API_KEY")

\* C7: in main(), an indexing call that raises is followed by the end of the
\* process with a non-zero status (an Exception is reported as an indexing
\* error, status 1); the loop runs only with both indices built.
C7_IndexingFailureIsFatal ==
    /\ [][ (mpc \in {"index_instrumentation_log", "index_source_code"}
              /\ pc = "idle" /\ ret.kind = "raise")
             => /\ mpc' = "exited" /\ exit_status' # 0
                /\ IsException(ret.exc)
                      => (exit_status' = 1
                            /\ IsSubstring(<<"Error indexing:">> \o ret.exc.msg, stdout')) ]_vars
    /\ [](InLoop => (Built(instrumentation_index) /\ Built(code_index)))

\* the trace was indexed, the source corpus turned out empty
C7_Witness ==
    /\ mpc = "exited" /\ exit_status = 1 /\ locals.op = "index_source_code"
    /\ ret.exc = Exc("ValueError", <<"No source code files found to index">>)
    /\ Built(instrumentation_index)

\* C8 as stated: an index handle, once built, is never replaced.
C8_NeverReplaced ==
    [][ /\ Built(instrumentation_index) => instrumentation_index' = instrumentation_index
        /\ Built(code_index) => code_index' = code_index ]_vars

\* C8 amended: a handle is set to None by the constructor and afterwards
\* changes only in the last step of a successful indexing call for its own
\* corpus, which puts a newly and fully built index object in it.
C8_ChangedOnlyByOwnIndexing ==
    [][ /\ instrumentation_index' # instrumentation_index =>
             \/ /\ pc = "__init__" /\ instrumentation_index = Undef
                /\ instrumentation_index' = None
             \/ /\ pc = "assign" /\ locals.op = "index_instrumentation_log"
                /\ pc' = "idle" /\ ret'.kind = "return"
                /\ Built(instrumentation_index') /\ instrumentation_index'.complete
                /\ instrumentation_index'.corpus = "index_instrumentation_log"
                /\ instrumentation_index'.id # instrumentation_index.id
        /\ code_index' # code_index =>
             \/ /\ pc = "__init__" /\ code_index = Undef
                /\ code_index' = None
             \/ /\ pc = "assign" /\ locals.op = "index_source_code"
                /\ pc' = "idle" /\ ret'.kind = "return"
                /\ Built(code_index') /\ code_index'.complete
                /\ code_index'.corpus = "index_source_code"
                /\ code_index'.id # code_index.id ]_vars

\* a second indexing call has replaced the first index object
C8_Witness ==
    /\ Done("index_instrumentation_log") /\ ret.kind = "return"
    /\ instrumentation_index.id = 2

FullOrAbsent(h) == Built(h) => h.complete

\* C9 as stated: after a failed indexing call the handle is absent.
C9_FailedCallLeavesAbsent ==
    /\ (Done("index_instrumentation_log") /\ ret.kind = "raise")
          => instrumentation_index = None
    /\ (Done("index_source_code") /\ ret.kind = "raise") => code_index = None
    /\ FullOrAbsent(instrumentation_index) /\ FullOrAbsent(code_index)

\* C9 amended: no step of an indexing call that ends by raising changes a
\* handle (a handle changes only in the step that completes a call
\* successfully), and a handle never holds a partially built index.
C9_FailedCallLeavesHandle ==
    /\ [][ ((instrumentation_index' # instrumentation_index \/ code_index' # code_index)
              /\ pc # "__init__")
             => (pc' = "idle" /\ ret'.kind = "return") ]_vars
    /\ [][ ret'.kind = "raise" => UNCHANGED <<instrumentation_index, code_index>> ]_vars
    /\ [](FullOrAbsent(instrumentation_index) /\ FullOrAbsent(code_index))

\* embedding failed part-way: the half-built object was dropped
C9_Witness ==
    /\ Done("index_source_code") /\ ret.kind = "raise"
    /\ Len(locals.building.nodes) >= 1
    /\ Len(locals.building.nodes) < Len(locals.building.of)
    /\ code_index = None

\* the documents of the directories that exist, in directory order, tagged
RECURSIVE ExistingDocs(_)
ExistingDocs(dirs) ==
    IF dirs = <<>> THEN <<>>
    ELSE LET d == Head(dirs)
             docs == [j \in 1..Len(d.files) |->
                        [text |-> <<FileNames[d.files[j]]>>,
                         source |-> "source_code", language |-> "java"]]
         IN  (IF d.exists THEN docs ELSE <<>>) \o ExistingDocs(Tail(dirs))

Count(seq, x) == Cardinality({i \in 1..Len(seq) : seq[i] = x})

\* C10: index_source_code that returns has built code_index from exactly the
\* tagged documents of the existing directories in directory order, with one
\* warning per missing directory; it raises only if a collaborator raised or
\* no existing directory yielded a document.
C10_MissingDirsSkipped ==
    Done("index_source_code") =>
        LET expected == ExistingDocs(locals.source_dirs)
            missing == Cardinality({i \in 1..Len(locals.source_dirs) :
                                      ~locals.source_dirs[i].exists})
        IN  /\ ret.kind = "return" =>
                 /\ expected # <<>>
                 /\ Built(code_index) /\ code_index.complete
                 /\ code_index = locals.index
                 /\ locals.building.of = expected /\ locals.building.nodes = expected
                 /\ \E i \in 1..Len(calls) :
                      /\ calls[i] = Call("from_documents", "index_source_code", <<>>, expected)
                      /\ \A j \in 1..Len(calls) :
                           (calls[j].fn = "from_documents" /\ calls[j].ev = "call") => j = i
                 /\ Count(stdout, "Warning: Directory not found") = missing
            /\ ret.kind = "raise" =>
                 \/ calls # <<>> /\ calls[Len(calls)].ev = "raise"
                 \/ /\ expected = <<>>
                    /\ ret.exc = Exc("ValueError", <<"No source code files found to index">>)

\* one directory is missing, a later one supplies the documents
C10_Witness ==
    /\ Done("index_source_code") /\ ret.kind = "return"
    /\ Len(locals.source_dirs) = 2
    /\ ~locals.source_dirs[1].exists
    /\ Len(locals.building.nodes) = 2

EmptyCorpus == Exc("ValueError", <<"No source code files found to index">>)

\* C11: index_source_code whose directories yield no document at all (none
\* exists, or none holds a matching file) raises the empty-corpus error
\* without calling from_documents; from_documents is never called with zero
\* documents, and no step of such a call changes code_index.
C11_EmptyCorpusRaises ==
    /\ [](locals.op = "index_source_code" =>
            /\ \A i \in 1..Len(calls) :
                 (calls[i].fn = "from_documents" /\ calls[i].ev = "call")
                    => calls[i].docs # <<>>
            /\ pc \in {"from_documents", "assign"} => locals.building.of # <<>>
            /\ (Done("index_source_code")
                  /\ ExistingDocs(locals.source_dirs) = <<>>
                  /\ \A i \in 1..Len(calls) : calls[i].ev # "raise")
                 => /\ ret.kind = "raise" /\ ret.exc = EmptyCorpus
                    /\ \A i \in 1..Len(calls) : calls[i].fn # "from_documents"
                    /\ locals.building = NoBuilding /\ locals.index = None
            /\ (Done("index_source_code") /\ ret.exc = EmptyCorpus)
                 => ExistingDocs(locals.source_dirs) = <<>>)
    /\ [][ (locals.op = "index_source_code" /\ pc # "assign")
             => code_index' = code_index ]_vars

\* a directory exists but holds no matching file; the index built by an
\* earlier call is still in the handle
C11_Witness ==
    /\ Done("index_source_code") /\ ret.exc = EmptyCorpus
    /\ \E i \in 1..Len(locals.source_dirs) : locals.source_dirs[i].exists
    /\ Built(code_index)

\* line s begins with the characters of p
Begins(s, p) == Len(s) >= Len(p) /\ \A i \in 1..Len(p) : s[i] = p[i]

\* what follows the first n characters of s
After(s, n) == [i \in 1..(Len(s) - n) |-> s[i + n]]

\* the mode a line selects and the question it carries
DispatchMode(line) ==
    IF Begins(line, <<"/", "i", "n", "s", "t", "r", " ">>) THEN "query_instrumentation"
    ELSE IF Begins(line, <<"/", "c", "o", "d", "e", " ">>) THEN "query_code"
    ELSE "query_both"

DispatchQuestion(line) ==
    IF Begins(line, <<"/", "i", "n", "s", "t", "r", " ">>) THEN Strip(After(line, 7))
    ELSE IF Begins(line, <<"/", "c", "o", "d", "e", " ">>) THEN Strip(After(line, 6))
    ELSE IF Begins(line, <<"/", "b", "o", "t", "h", " ">>) THEN Strip(After(line, 6))
    ELSE line

\* C12: a non-blank, non-exit line is dispatched exactly once, to the mode its
\* prefix selects with the prefix stripped, any other line (a bare /instr,
\* /code or /both too) to query_both with the whole trimmed line; /instr
\* reaches the instrumentation engine only, /code the code engine only.
C12_OneDispatchByPrefix ==
    /\ [][ (mpc = "loop" /\ user_input # <<>> /\ user_input # QuitToken)
             => (mpc' = "query" /\ calls' = <<>> /\ user_input' = user_input) ]_vars
    /\ [][ (mpc' = "query" /\ mpc # "query") => mpc = "loop" ]_vars
    /\ [][ mpc = "query"
             => /\ mpc' \in {"query", "input", "exited"}
                /\ locals'.op = locals.op /\ locals'.query = locals.query
                /\ user_input' = user_input ]_vars
    /\ [](mpc = "query" =>
            /\ user_input # <<>> /\ user_input # QuitToken
            /\ locals.op = DispatchMode(user_input)
            /\ locals.query = DispatchQuestion(user_input)
            /\ locals.query # <<>>
            /\ locals.op = "query_instrumentation" =>
                 \A i \in 1..Len(calls) :
                    calls[i].fn = "query" /\ calls[i].corpus = "instrumentation"
            /\ locals.op = "query_code" =>
                 \A i \in 1..Len(calls) :
                    calls[i].fn = "query" /\ calls[i].corpus = "code")

\* a bare /instr was answered by query_both, asked about the line itself
C12_Witness ==
    /\ mpc = "query" /\ pc = "idle" /\ ret.kind = "return"
    /\ user_input = <<"/", "i", "n", "s", "t", "r">>
    /\ locals.op = "query_both" /\ locals.query = user_input
    /\ Len(calls) = 6

AllSpaces(s) == \A i \in 1..Len(s) : s[i] = " "

\* C13: a blank line (empty, or spaces only) makes no call and prints no
\* answer: the step that handles it changes neither the handles nor the call
\* log, the last outcome or the output, and leads back to the prompt; a line
\* of spaces only never reaches the dispatch.
C13_BlankIsNoOp ==
    /\ [][ (mpc = "loop" /\ user_input = <<>>)
             => /\ mpc' = "input"
                /\ UNCHANGED <<self_vars, pc, locals, calls, ret, stdout, exit_status>> ]_vars
    /\ [][ mpc = "input" => (mpc' = "read" /\ stdout' = <<"Query: ">>
                               /\ UNCHANGED <<self_vars, pc>>) ]_vars
    /\ []((mpc = "loop" /\ user_input = <<>>)
             => (pc = "idle" /\ calls = <<>> /\ ret = NoRet /\ stdout = <<"Query: ">>))
    /\ [](mpc \in {"loop", "query"} => (user_input = <<>> \/ ~AllSpaces(user_input)))

\* back at the top of the loop after a blank line: nothing but the prompt
\* has been printed
C13_Witness ==
    /\ mpc = "input" /\ pc = "idle" /\ user_input = <<>>
    /\ calls = <<>> /\ ret = NoRet /\ stdout = <<"Query: ">>
    /\ Built(instrumentation_index) /\ Built(code_index)

\* C14: the line /quit ends the loop: the step that handles it ends main()
\* with status 0 having dispatched nothing for that line, and once main() is
\* over no line is read and no query is made, whatever came before.
C14_QuitEndsLoop ==
    /\ [][ (mpc = "loop" /\ user_input = QuitToken)
             => /\ mpc' = "exited" /\ exit_status' = 0
                /\ UNCHANGED <<self_vars, pc, locals, calls, ret, user_input>> ]_vars
    /\ []((mpc = "loop" /\ user_input = QuitToken)
             => (pc = "idle" /\ calls = <<>> /\ ret = NoRet /\ locals = NoLocals))
    /\ [][ mpc = "exited"
             => (mpc' = "exited" /\ pc' = pc /\ user_input' = user_input
                   /\ calls' = calls) ]_vars
    /\ [](mpc = "exited" => pc = "idle")

\* /quit typed after a query of the session had failed
C14_Witness ==
    /\ mpc = "exited" /\ exit_status = 0 /\ user_input = QuitToken
    /\ failed_queries /\ calls = <<>> /\ ret = NoRet

QueryOps == {"query_instrumentation", "query_code", "query_both"}

\* C15: no step of a query operation, from the call to the moment the caller
\* has its answer or its error, changes instrumentation_index, code_index or
\* the two keys of the session object.
C15_QueriesChangeNoState ==
    [][ (locals.op \in QueryOps \/ locals'.op \in QueryOps)
          => UNCHANGED <<instrumentation_index, code_index,
                         anthropic_api_key, openai_api_key>> ]_vars

\* a query_both whose code sub-query failed after the instrumentation
\* sub-query had answered
C15_Witness ==
    /\ Done("query_both") /\ ret.kind = "raise"
    /\ Len(calls) = 4 /\ calls[4].ev = "raise" /\ calls[4].corpus = "code"
    /\ Built(instrumentation_index) /\ Built(code_index)

(* ------------- a caller with deterministic collaborators --------------- *)
\* A mocked query engine or chat model answers None or a fixed text, or
\* raises; which of these it does is any function of the request.
MockOutcome(out) ==
    IF out.ev = "raise" THEN out.text = <<"Exception">>
    ELSE out.none \/ out.text = <<"a">>

\* the step, if it is a query engine or the chat model coming back, is a
\* mock coming back, and to a request the kept query had made it comes back
\* the way it did then
Mocked ==
    (/\ Len(calls') = Len(calls) + 1
     /\ calls'[Len(calls')].fn \in {"query", "chat"}
     /\ calls'[Len(calls')].ev # "call")
        => /\ MockOutcome(calls'[Len(calls')])
           /\ \A i \in 1..(Len(remembered.calls) - 1) :
                remembered.calls[i] = calls[Len(calls)]
                   => calls'[Len(calls')] = remembered.calls[i + 1]

Mock_Method == Method /\ Mocked

\* indexing, for as long as no outcome is kept: the kept outcome is about
\* the indices as they are
Mock_index ==
    /\ remembered = NoAnswer
    /\ \/ Client_index_instrumentation_log
       \/ Client_index_source_code

\* rag.query_x(q); a query other than the kept one counts as made in between
Mock_query ==
    /\ mpc = "api" /\ pc = "idle" /\ ret = NoRet /\ Constructed
    /\ \E op \in QueryOps, q \in Texts :
         /\ Enter(op, [NoLocals EXCEPT !.op = op, !.query = q])
         /\ remembered' =
              IF remembered # NoAnswer /\ <<op, q>> # <<remembered.op, remembered.query>>
              THEN [remembered EXCEPT !.between = TRUE]
              ELSE remembered
    /\ UNCHANGED <<self_vars, main_vars>>

\* the caller keeps the outcome of the query that has just ended
Mock_remember ==
    /\ mpc = "api" /\ pc = "idle" /\ ret # NoRet
    /\ locals.op \in QueryOps /\ remembered = NoAnswer
    /\ remembered' = [op |-> locals.op, query |-> locals.query, calls |-> calls,
                      ret |-> ret, between |-> FALSE]
    /\ UNCHANGED <<self_vars, pc, locals, calls, ret, stdout, main_vars>>

MockNext ==
    \/ Client_new
    \/ Mock_index
    \/ Mock_query
    \/ Mock_remember
    \/ Client_result
    \/ Mock_Method

MockSpec == Init /\ [][MockNext]_vars

\* C16: with collaborators that answer a repeated request the way they
\* answered it before, and no indexing in between, a query with the mode and
\* the question of a kept one has the kept outcome (the same answer text, or
\* the same error), whatever was asked in between.
C16_RepeatedQuerySameAnswer ==
    (/\ remembered # NoAnswer
     /\ Done(remembered.op) /\ locals.query = remembered.query)
        => ret = remembered.ret

\* a query_both answered again after other queries
C16_Witness ==
    /\ remembered.between /\ remembered.op = "query_both"
    /\ Done("query_both") /\ locals.query = remembered.query
    /\ ret.kind = "return" /\ ret.val # <<>>

\* positions in the call log of the events ev of collaborator fn on corpus
Events(ev, fn, corpus) ==
    {i \in 1..Len(calls) : calls[i].ev = ev /\ calls[i].fn = fn /\ calls[i].corpus = corpus}

\* C17: in a query each collaborator is called at most once; a call that
\* raises is the last event of the operation, which is over at once with
\* that exception as its outcome (no retry, no later sub-query or synthesis
\* call), and an operation that returns an answer has had no failed call.
C17_FailureSurfacesAtOnce ==
    locals.op \in QueryOps =>
        /\ Cardinality(Events("call", "query", "instrumentation")) <= 1
        /\ Cardinality(Events("call", "query", "code")) <= 1
        /\ Cardinality(Events("call", "chat", "")) <= 1
        /\ \A i \in 1..Len(calls) :
             calls[i].ev = "raise" =>
                /\ i = Len(calls)
                /\ pc = "idle" /\ ret.kind = "raise"
                /\ <<ret.exc.type>> = calls[i].text
        /\ Events("raise", "query", "instrumentation") # {} =>
             (Events("call", "query", "code") = {} /\ Events("call", "chat", "") = {})
        /\ Events("raise", "query", "code") # {} => Events("call", "chat", "") = {}
        /\ ret.kind = "return" => \A i \in 1..Len(calls) : calls[i].ev # "raise"

\* the instrumentation sub-query of a query_both failed: nothing else was
\* called
C17_Witness ==
    /\ Done("query_both") /\ ret.kind = "raise" /\ IsException(ret.exc)
    /\ Len(calls) = 2 /\ calls[2].ev = "raise" /\ calls[2].corpus = "instrumentation"

\* C18: in query_both the request to the code engine is the code preamble
\* followed by the caller's question and nothing else, whatever the
\* instrumentation engine answered, and it goes to code_index; the request to
\* the instrumentation engine is built from the question alone and goes to
\* instrumentation_index; only the chat prompt carries the two answers.
C18_IndependentGrounding ==
    locals.op = "query_both" =>
        \A i \in 1..Len(calls) :
            /\ i \in Events("call", "query", "code") =>
                 /\ calls[i].text = CodePrompt(locals.query)
                 /\ calls[i].index = code_index
                 /\ calls[i].index # instrumentation_index
            /\ i \in Events("call", "query", "instrumentation") =>
                 /\ calls[i].text = InstrPrompt(locals.query)
                 /\ calls[i].index = instrumentation_index
                 /\ calls[i].index # code_index
            /\ i \in Events("call", "chat", "") =>
                 /\ calls[i].index = None
                 /\ Events("return", "query", "instrumentation") # {}
                 /\ Events("return", "query", "code") # {}

\* the code engine has been asked after the instrumentation engine gave an
\* answer that is neither empty nor the question
C18_Witness ==
    /\ locals.op = "query_both"
    /\ Events("call", "query", "code") # {}
    /\ locals.instr_response # <<>> /\ locals.instr_response # locals.query
    /\ locals.query # <<>>

NotIndexedErrors == {BothNotIndexed, InstrNotIndexed, CodeNotIndexed}

\* C19: in main(), while the loop waits for a line or works on one, both
\* handles hold fully built indices; code_index is built only when
\* instrumentation_index already is; and no query of the session ends with a
\* not-indexed error.
C19_LoopHasBothIndices ==
    /\ [](InLoop => /\ Built(instrumentation_index) /\ instrumentation_index.complete
                    /\ Built(code_index) /\ code_index.complete)
    /\ [](Built(code_index) => Built(instrumentation_index))
    /\ [][ (code_index' # code_index /\ Built(code_index'))
             => (Built(instrumentation_index)
                   /\ instrumentation_index' = instrumentation_index) ]_vars
    /\ [](mpc = "query" => ret.exc \notin NotIndexedErrors)
    /\ []((mpc = "query" /\ locals.op = "query_both" /\ pc = "idle") => calls # <<>>)

\* a query_both of the session is past its not-indexed check
C19_Witness ==
    /\ mpc = "query" /\ locals.op = "query_both" /\ pc = "query_instrumentation"
    /\ instrumentation_index.corpus = "index_instrumentation_log"
    /\ code_index.corpus = "index_source_code"

Interrupt(e) == e.type = "KeyboardInterrupt"

\* C20: a step leaves the loop only for the line /quit or for a
\* KeyboardInterrupt, raised by input() or by the query in flight, and both
\* do leave it; any other exception raised by input() (end of input too) or
\* by a query is reported and the loop is back at its top, from where the
\* only step is the next prompt.
C20_LoopEndsTwoWays ==
    /\ [][ (InLoop /\ mpc' = "exited")
             => /\ exit_status' = 0
                /\ \/ mpc = "loop" /\ user_input = QuitToken
                   \/ mpc = "read" /\ ret'.kind = "raise" /\ Interrupt(ret'.exc)
                   \/ mpc = "query" /\ pc = "idle" /\ ret.kind = "raise"
                        /\ Interrupt(ret.exc) ]_vars
    /\ [][ (mpc = "read" /\ ret'.kind = "raise")
             => IF Interrupt(ret'.exc) THEN mpc' = "exited"
                ELSE /\ mpc' = "input"
                     /\ IsSubstring(<<"Error:">> \o ret'.exc.msg, stdout') ]_vars
    /\ [][ (mpc = "query" /\ pc = "idle" /\ ret.kind = "raise")
             => IF Interrupt(ret.exc) THEN mpc' = "exited"
                ELSE /\ mpc' = "input"
                     /\ IsSubstring(<<"Error:">> \o ret.exc.msg, stdout') ]_vars
    /\ [][ mpc = "input" => mpc' = "read" ]_vars
    /\ [](InLoop => exit_status = 0)

\* input() has raised EOFError: reported, and the loop is at its top again
C20_Witness ==
    /\ mpc = "input" /\ ret.kind = "raise" /\ ret.exc.type = "EOFError"
    /\ IsSubstring(<<"Error:", "EOF when reading a line">>, stdout)

====
